---- MODULE Spec2Model ----
(***************************************************************************)
(* Verification model of src/models.py: the pydantic record hierarchy      *)
(* BaseUser -> User -> AdminUser, its field validators, validated          *)
(* assignment (validate_assignment=True) and AdminUser.has_permission.     *)
(*                                                                         *)
(* A Python str is a sequence of one-character tokens.  Input values are   *)
(* tagged with their Python type: [t |-> "str", s |-> ...],                *)
(* [t |-> "int", n |-> ...], [t |-> "float", w |-> whole, f |-> tenths],   *)
(* [t |-> "none"].  Stored field values are untagged (a str or an int).    *)
(***************************************************************************)
EXTENDS Integers, Sequences, FiniteSets, TLC

VARIABLES
    rec,                \* the record instance: NoRec, or [kind, d: field -> stored value]
    res,                \* the pending construction, or the outcome of the last operation
    ADMIN_PERMISSIONS   \* AdminUser.ADMIN_PERMISSIONS, a class attribute

vars == <<rec, res, ADMIN_PERMISSIONS>>

----------------------------------------------------------------------------
(* Bounds of the model *)

MaxNameLen == 2     \* longest name input explored in depth
MaxTail == 2        \* longest variable tail of a password input
MaxAge == 19        \* largest integer age input

(* Program constants *)

password_min_length == 8    \* Field(min_length=8)
age_ge == 18                \* Field(ge=18)

----------------------------------------------------------------------------
(* Characters *)

\* U+0149, LATIN SMALL LETTER N PRECEDED BY APOSTROPHE: one character whose
\* title case is the two characters U+02BC U+004E (Unicode SpecialCasing).
APOS_N == "'n"
\* U+02BC, MODIFIER LETTER APOSTROPHE: caseless, not whitespace.
APOS == "'"

Whitespace == {" "}

SPECIALS == {"!", "@", "#", "$", "%", "^", "&", "*"}

DecimalDigits == {"0", "1", "2", "3", "4", "5", "6", "7", "8", "9"}

\* ch.isdigit()
isdigit(ch) == ch \in DecimalDigits

\* the str.lower() image of one character
LowerChar(c) ==
    CASE c = "A" -> <<"a">>
      [] c = "N" -> <<"n">>
      [] OTHER -> <<c>>

\* the title-case image of one character, as str.capitalize() applies it to the
\* first character (Python >= 3.8)
TitleChar(c) ==
    CASE c = "a" -> <<"A">>
      [] c = "n" -> <<"N">>
      [] c = APOS_N -> <<APOS, "N">>
      [] OTHER -> <<c>>

RECURSIVE lower(_)
\* str.lower()
lower(s) == IF s = <<>> THEN <<>> ELSE LowerChar(Head(s)) \o lower(Tail(s))

\* str.capitalize(): first character title-cased, the rest lower-cased
capitalize(s) == IF s = <<>> THEN <<>> ELSE TitleChar(Head(s)) \o lower(Tail(s))

RECURSIVE lstrip(_)
lstrip(s) == IF s # <<>> /\ Head(s) \in Whitespace THEN lstrip(Tail(s)) ELSE s

RECURSIVE rstrip(_)
rstrip(s) ==
    IF s # <<>> /\ s[Len(s)] \in Whitespace THEN rstrip(SubSeq(s, 1, Len(s) - 1)) ELSE s

\* str.strip()
strip(s) == rstrip(lstrip(s))

\* a misconfiguration: str_strip_whitespace left at its default, False
str_strip_whitespace_off(s) == s

\* model_config: str_strip_whitespace=True, applied by every str field to
\* its value before the field's constraints and "after" validators
str_strip_whitespace(s) == strip(s)

----------------------------------------------------------------------------
(* Tagged input values *)

S(s) == [t |-> "str", s |-> s]
I(n) == [t |-> "int", n |-> n]
F(w, f) == [t |-> "float", w |-> w, f |-> f]
None == [t |-> "none"]

\* isinstance(v, str)
IsStr(v) == v.t = "str"

(* Outcome of validating one field value: accepted with the value to store,
   rejected with the error codes collected into the ValidationError, or
   an exception that escapes validation (exc). *)
Accept(x) == [ok |-> TRUE, val |-> x, errs |-> {}, exc |-> "none"]
Reject(code) == [ok |-> FALSE, val |-> <<>>, errs |-> {code}, exc |-> "none"]
Raise(kind, code) == [ok |-> FALSE, val |-> <<>>, errs |-> {code}, exc |-> kind]

----------------------------------------------------------------------------
(* Field validators *)

\* a normalization that forgets to capitalize
normalize_name_lower(v) ==
    IF ~IsStr(v) THEN Raise("TypeError", "name_not_string")
    ELSE LET s == strip(v.s) IN
         IF s = <<>> THEN Reject("name_empty")
         ELSE Accept(lower(s))

\* @field_validator("first_name", "last_name", mode="before")
normalize_name(v) ==
    IF ~IsStr(v) THEN Raise("TypeError", "name_not_string")
    ELSE LET s == strip(v.s) IN
         IF s = <<>> THEN Reject("name_empty")
         ELSE Accept(capitalize(lower(s)))

\* a name field: the "before" validator, then the str field itself, which
\* strips whitespace
validate_name(v) ==
    LET r == normalize_name(v) IN
    IF r.ok THEN Accept(str_strip_whitespace(r.val)) ELSE r

\* a validator that reports every rule the password breaks
validate_password_strength_all(v) ==
    LET broken == (IF Len(v.s) < 8 THEN {"password_too_short"} ELSE {})
                    \cup (IF \E i \in 1..Len(v.s) : isdigit(v.s[i])
                          THEN {} ELSE {"password_no_digit"})
                    \cup (IF \E i \in 1..Len(v.s) : v.s[i] \in SPECIALS
                          THEN {} ELSE {"password_no_special"})
    IN  IF broken = {} THEN Accept(v.s)
        ELSE [ok |-> FALSE, val |-> <<>>, errs |-> broken, exc |-> "none"]

\* a validator that looks for the special character before the digit
validate_password_strength_swapped(v) ==
    IF Len(v.s) < 8 THEN Reject("password_too_short")
    ELSE IF ~(\E i \in 1..Len(v.s) : v.s[i] \in SPECIALS) THEN Reject("password_no_special")
    ELSE IF ~(\E i \in 1..Len(v.s) : isdigit(v.s[i])) THEN Reject("password_no_digit")
    ELSE Accept(v.s)

\* @field_validator("password"), run after the str field itself
validate_password_strength(v) ==
    IF ~IsStr(v) THEN Raise("TypeError", "password_not_string")
    ELSE IF Len(v.s) < 8 THEN Reject("password_too_short")
    ELSE IF ~(\E i \in 1..Len(v.s) : isdigit(v.s[i])) THEN Reject("password_no_digit")
    ELSE IF ~(\E i \in 1..Len(v.s) : v.s[i] \in SPECIALS) THEN Reject("password_no_special")
    ELSE Accept(v.s)

\* password: str = Field(min_length=8): the str field (type, strip, min_length),
\* then the field validator
validate_password(v) ==
    IF ~IsStr(v) THEN Reject("string_type")
    ELSE LET s == str_strip_whitespace(v.s) IN
         IF Len(s) < password_min_length THEN Reject("string_too_short")
         ELSE validate_password_strength(S(s))

Digits == <<"0", "1", "2", "3", "4", "5", "6", "7", "8", "9">>

DigitValue(c) == (CHOOSE i \in 1..10 : Digits[i] = c) - 1

RECURSIVE ParseDigits(_)
ParseDigits(s) ==
    IF s = <<>> THEN 0
    ELSE 10 * ParseDigits(SubSeq(s, 1, Len(s) - 1)) + DigitValue(s[Len(s)])

\* age: int in pydantic's default (lax) mode: an int is taken as it is, a str
\* of decimal digits is parsed, a float without fractional part is converted,
\* anything else is an error
lax_int(v) ==
    CASE v.t = "int" -> Accept(v.n)
      [] v.t = "str" ->
            IF v.s # <<>> /\ \A i \in 1..Len(v.s) : v.s[i] \in DecimalDigits
            THEN Accept(ParseDigits(v.s)) ELSE Reject("int_parsing")
      [] v.t = "float" -> IF v.f = 0 THEN Accept(v.w) ELSE Reject("int_from_float")
      [] OTHER -> Reject("int_type")

\* an off-by-one threshold
age_in_range_exclusive(n) == n > age_ge

\* Field(ge=18)
age_in_range(n) == n >= age_ge

\* age: int = Field(ge=18)
validate_age(v) ==
    LET r == lax_int(v) IN
    IF ~r.ok THEN r
    ELSE IF age_in_range(r.val) THEN r ELSE Reject("greater_than_equal")

\* EmailStr: local "@" domain, both non-empty, the domain dotted, no empty
\* label, no whitespace inside
email_syntax_ok(s) ==
    LET ats == {i \in 1..Len(s) : s[i] = "@"} IN
    /\ Cardinality(ats) = 1
    /\ LET k == CHOOSE i \in ats : TRUE
           local == SubSeq(s, 1, k - 1)
           domain == SubSeq(s, k + 1, Len(s))
       IN /\ local # <<>>
          /\ domain # <<>>
          /\ \A i \in 1..Len(s) : s[i] \notin Whitespace
          /\ \E i \in 1..Len(domain) : domain[i] = "."
          /\ domain[1] # "." /\ domain[Len(domain)] # "."
          /\ local[1] # "." /\ local[Len(local)] # "."
          /\ \A i \in 1..(Len(s) - 1) : ~(s[i] = "." /\ s[i + 1] = ".")

\* email: EmailStr
validate_email(v) ==
    IF ~IsStr(v) THEN Reject("string_type")
    ELSE LET s == str_strip_whitespace(v.s) IN
         IF email_syntax_ok(s) THEN Accept(s) ELSE Reject("email_syntax")

\* Literal["admin", "superadmin"]
RoleLiteral == {"admin", "superadmin"}

\* a role check that ignores the case of the first letter
validate_role_caseless(v) ==
    IF IsStr(v) /\ v.s \in RoleLiteral \cup {"Admin", "Superadmin"}
    THEN Accept(v.s) ELSE Reject("literal_error")

\* role: Literal["admin", "superadmin"], an exact match, nothing is stripped
validate_role(v) ==
    IF IsStr(v) /\ v.s \in RoleLiteral THEN Accept(v.s) ELSE Reject("literal_error")

\* the fields of each class, in definition order
FieldsOf(kind) ==
    CASE kind = "BaseUser" -> <<"email", "first_name", "last_name">>
      [] kind = "User" -> <<"email", "first_name", "last_name", "password", "age">>
      [] kind = "AdminUser" ->
            <<"email", "first_name", "last_name", "password", "age", "role">>

FieldSet(kind) == {FieldsOf(kind)[i] : i \in 1..Len(FieldsOf(kind))}

\* the validation one field runs, at construction and at assignment alike
validate_field(field, v) ==
    CASE field = "email" -> validate_email(v)
      [] field = "first_name" -> validate_name(v)
      [] field = "last_name" -> validate_name(v)
      [] field = "password" -> validate_password(v)
      [] field = "age" -> validate_age(v)
      [] field = "role" -> validate_role(v)

----------------------------------------------------------------------------
(* Operations *)

NoRec == [kind |-> "none"]

\* Class(**args): every field is validated, in definition order.  The errors
\* of all fields are collected into one ValidationError; a TypeError raised
\* by a validator is not collected, it escapes at the first field raising it.
construct(kind, args) ==
    LET order == FieldsOf(kind)
        out == [f \in FieldSet(kind) |-> validate_field(f, args[f])]
        raising == {i \in 1..Len(order) : out[order[i]].exc # "none"}
        first == order[CHOOSE i \in raising : \A j \in raising : i <= j]
        collected == UNION {{<<f, c>> : c \in out[f].errs} : f \in FieldSet(kind)}
    IN  IF raising # {}
        THEN [ok |-> FALSE, rec |-> NoRec, exc |-> out[first].exc,
              errs |-> {<<first, c>> : c \in out[first].errs}]
        ELSE IF collected # {}
        THEN [ok |-> FALSE, rec |-> NoRec, exc |-> "ValidationError", errs |-> collected]
        ELSE [ok |-> TRUE, exc |-> "none", errs |-> {},
              rec |-> [kind |-> kind, d |-> [f \in FieldSet(kind) |-> out[f].val]]]

\* the value as the caller passed it
Raw(v) ==
    CASE v.t = "str" -> v.s
      [] v.t = "int" -> v.n
      [] v.t = "float" -> v.w
      [] OTHER -> <<>>

\* an assignment that stores the value and validates it afterwards
setattr_unvalidated(self, field, v, r) ==
    [self EXCEPT !.d[field] = IF r.ok THEN r.val ELSE Raw(v)]

\* validate_assignment=True: the new value is validated first and stored only
\* when it is accepted
setattr(self, field, v, r) ==
    IF r.ok THEN [self EXCEPT !.d[field] = r.val] ELSE self

\* a permission check with the two roles confused
has_permission_swapped(self, permission) ==
    IF self.d["role"] = "admin" THEN TRUE
    ELSE permission \in ADMIN_PERMISSIONS

\* AdminUser.has_permission
has_permission(self, permission) ==
    IF self.d["role"] = "superadmin" THEN TRUE
    ELSE permission \in ADMIN_PERMISSIONS

\* u = Class(**args), for the arguments drawn in the initial state
Construct ==
    /\ res.op = "new"
    /\ LET c == construct(res.kind, res.args) IN
       /\ rec' = IF c.ok THEN c.rec ELSE rec
       /\ res' = [op |-> "construct", kind |-> res.kind, args |-> res.args,
                  ok |-> c.ok, errs |-> c.errs, exc |-> c.exc]
    /\ UNCHANGED ADMIN_PERMISSIONS

\* u.field = v
Assign(field, v) ==
    /\ rec # NoRec
    /\ field \in FieldSet(rec.kind)
    /\ LET r == validate_field(field, v) IN
       /\ rec' = setattr(rec, field, v, r)
       /\ res' = [op |-> "assign", field |-> field, value |-> v, ok |-> r.ok,
                  errs |-> {<<field, c>> : c \in r.errs},
                  exc |-> IF r.ok THEN "none"
                          ELSE IF r.exc # "none" THEN r.exc ELSE "ValidationError",
                  before |-> rec]
    /\ UNCHANGED ADMIN_PERMISSIONS

\* u.field = u.field
AssignStored(field) ==
    /\ rec # NoRec
    /\ field \in FieldSet(rec.kind)
    /\ Assign(field, IF field = "age" THEN I(rec.d[field]) ELSE S(rec.d[field]))

\* u.has_permission(x)
HasPermission(x) ==
    /\ rec # NoRec
    /\ rec.kind = "AdminUser"
    /\ res' = [op |-> "has_permission", permission |-> x,
               ret |-> has_permission(rec, x), before |-> rec]
    /\ UNCHANGED <<rec, ADMIN_PERMISSIONS>>

----------------------------------------------------------------------------
(* Inputs *)

SeqsUpTo(C, n) == UNION {[1..k -> C] : k \in 0..n}

NameChars == {"a", "A", " ", APOS_N}

NameInputs == {S(s) : s \in SeqsUpTo(NameChars, MaxNameLen)}

NameSamples == {S(<<" ", "a", "A", " ">>), S(<<"A">>), S(<<" ", " ">>), I(5)}

GoodName == S(<<"a">>)

PwdStem == <<"A", "b", "c", "d", "e", "f">>

TailChars == {"x", "1", "!", " "}

PwdInputs ==
    {S(pad \o PwdStem \o tl) : pad \in {<<>>, <<" ">>}, tl \in SeqsUpTo(TailChars, MaxTail)}

PwdSamples ==
    {S(PwdStem \o <<"1", "!">>), S(<<" ">> \o PwdStem \o <<"*", "9">>), S(PwdStem),
     S(PwdStem \o <<"x", "x">>), I(12345678)}

GoodPassword == S(PwdStem \o <<"1", "!">>)

AgeInts == {-1, 0, 120} \cup ((age_ge - 1)..MaxAge)

AgeInputs ==
    {I(n) : n \in AgeInts}
        \cup {S(<<"2", "0">>), S(<<"1", "7">>), S(<<"x">>), S(<<>>),
              F(20, 0), F(20, 5), F(17, 0), None}

AgeSamples == {I(17), I(18), S(<<"2", "0">>), None}

GoodAge == I(18)

GoodEmail == S(<<"u", "@", "d", ".", "c">>)

EmailSamples ==
    {GoodEmail, S(<<" ", "u", "@", "d", ".", "c">>), S(<<"u", "@", "d">>),
     S(<<"u", "@", "d", ".">>), S(<<"@", "d", ".", "c">>), S(<<"u", "@">>)}

RoleInputs ==
    {S("admin"), S("superadmin"), S("administrator"), S("root"), S(""), S("user"),
     S("Admin"), I(1)}

PermInputs ==
    {"read", "write", "delete", "view_reports", "manage_users",
     "manage_roles", "system_shutdown", "anything_custom", ""}

AllFields == {"email", "first_name", "last_name", "password", "age", "role"}

\* the keyword arguments of one construction
Args(kind, E, FN, LN, P, A, R) ==
    {[f \in FieldSet(kind) |->
        CASE f = "email" -> e
          [] f = "first_name" -> fn
          [] f = "last_name" -> ln
          [] f = "password" -> p
          [] f = "age" -> a
          [] f = "role" -> r] :
     e \in E, fn \in FN, ln \in LN, p \in P, a \in A, r \in R}

Pending(kind, E, FN, LN, P, A, R) ==
    {[op |-> "new", kind |-> kind, args |-> a] : a \in Args(kind, E, FN, LN, P, A, R)}

SampleInputs(field) ==
    CASE field = "email" -> EmailSamples
      [] field = "first_name" -> NameSamples
      [] field = "last_name" -> NameSamples
      [] field = "password" -> PwdSamples
      [] field = "age" -> AgeSamples
      [] field = "role" -> RoleInputs

----------------------------------------------------------------------------
(* Specifications *)

InitCommon ==
    /\ rec = NoRec
    /\ ADMIN_PERMISSIONS = {"read", "write", "delete", "view_reports", "manage_users"}

\* All three classes, every field drawn from a few samples.
Init ==
    /\ InitCommon
    /\ res \in Pending("BaseUser", EmailSamples, NameSamples, NameSamples,
                       {GoodPassword}, {GoodAge}, {S("admin")})
          \cup Pending("User", {GoodEmail}, NameSamples, NameSamples,
                       PwdSamples, AgeSamples, {S("admin")})
          \cup Pending("AdminUser", {GoodEmail}, NameSamples, {GoodName},
                       PwdSamples, AgeSamples, RoleInputs)

Next ==
    \/ Construct
    \/ \E field \in AllFields : \E v \in SampleInputs(field) : Assign(field, v)
    \/ \E field \in AllFields : AssignStored(field)
    \/ \E x \in PermInputs : HasPermission(x)

Spec == Init /\ [][Next]_vars

\* BaseUser with first_name explored over every string up to MaxNameLen.
InitName ==
    /\ InitCommon
    /\ res \in Pending("BaseUser", {GoodEmail}, NameInputs, NameSamples,
                       {GoodPassword}, {GoodAge}, {S("admin")})

NextName ==
    \/ Construct
    \/ \E v \in NameInputs : Assign("first_name", v)
    \/ \E v \in NameSamples : Assign("last_name", v)
    \/ \E field \in {"first_name", "last_name"} : AssignStored(field)

SpecName == InitName /\ [][NextName]_vars

\* User with password and age explored over PwdInputs and AgeInputs.
InitPwd ==
    /\ InitCommon
    /\ res \in Pending("User", {GoodEmail}, {GoodName}, {GoodName},
                       PwdInputs, AgeInputs, {S("admin")})

NextPwd ==
    \/ Construct
    \/ \E v \in PwdInputs : Assign("password", v)
    \/ \E v \in AgeInputs : Assign("age", v)

SpecPwd == InitPwd /\ [][NextPwd]_vars

----------------------------------------------------------------------------
(* Vocabulary of the properties, stated without the operators of the model *)

NameFields == {"first_name", "last_name"}

IsBlank(s) == \A i \in 1..Len(s) : s[i] = " "

\* s without its leading and trailing whitespace
Trimmed(s) ==
    LET solid == {i \in 1..Len(s) : s[i] # " "} IN
    IF solid = {} THEN <<>>
    ELSE SubSeq(s, CHOOSE i \in solid : \A j \in solid : i <= j,
                   CHOOSE i \in solid : \A j \in solid : i >= j)

UpperOf(c) ==
    IF c = "a" THEN <<"A">> ELSE IF c = "n" THEN <<"N">>
    ELSE IF c = "'n" THEN <<"'", "N">> ELSE <<c>>

LowerOf(c) == IF c = "A" THEN "a" ELSE IF c = "N" THEN "n" ELSE c

\* the trimmed name, lower-cased in full, its first character upper-cased
ExpectedName(s) ==
    LET tr == Trimmed(s) IN
    IF tr = <<>> THEN <<>>
    ELSE UpperOf(LowerOf(tr[1])) \o [i \in 1..(Len(tr) - 1) |-> LowerOf(tr[i + 1])]

HasDigit(s) == \E i \in 1..Len(s) : s[i] \in {"0", "1", "2", "3", "4", "5", "6", "7", "8", "9"}

HasSpecial(s) == \E i \in 1..Len(s) : s[i] \in {"!", "@", "#", "$", "%", "^", "&", "*"}

StrongPassword(s) == Len(s) >= 8 /\ HasDigit(s) /\ HasSpecial(s)

Constructed == res.op = "construct"

Assigned(field) == res.op = "assign" /\ res.field = field

\* the last operation was given a password: a construction of a User or an
\* AdminUser, or an assignment of password
PasswordGiven == IF Constructed THEN res.kind # "BaseUser" ELSE Assigned("password")

GivenPassword == IF Constructed THEN res.args["password"] ELSE res.value

ErrorsOf(field) == {e[2] : e \in {x \in res.errs : x[1] = field}}

TooShortNamed == ErrorsOf("password") \cap {"string_too_short", "password_too_short"} # {}

NoDigitNamed == "password_no_digit" \in ErrorsOf("password")

NoSpecialNamed == "password_no_special" \in ErrorsOf("password")

\* the integer an age input stands for: itself, the number a string of
\* decimal digits spells, or a float without fractional part
IntegerOf(v) ==
    CASE v.t = "int" -> {v.n}
      [] v.t = "str" ->
            IF v.s # <<>> /\ \A i \in 1..Len(v.s) : v.s[i] \in DecimalDigits
            THEN {ParseDigits(v.s)} ELSE {}
      [] v.t = "float" -> IF v.f = 0 THEN {v.w} ELSE {}
      [] OTHER -> {}

----------------------------------------------------------------------------
(* Properties *)

\* C1: in every reachable state of a record every stored field is valid: the
\* names are non-empty and equal to their own normalized form, and a User's
\* password has length >= 8, a digit and a special character, its age >= 18.
C1_StoredFieldsValid ==
    rec # NoRec =>
        /\ \A f \in NameFields :
              rec.d[f] # <<>> /\ ExpectedName(rec.d[f]) = rec.d[f]
        /\ rec.kind # "BaseUser" =>
              StrongPassword(rec.d["password"]) /\ rec.d["age"] >= 18

\* C2: a failed assignment raises an error and leaves every field of the
\* record, the assigned one included, as it was before.
C2_FailedAssignUnchanged ==
    (res.op = "assign" /\ ~res.ok) =>
        /\ rec = res.before
        /\ res.exc # "none"
        /\ res.errs # {}

\* C2 witness: age = 17 was assigned to a valid account and rejected.
C2_Witness ==
    /\ Assigned("age") /\ res.value = I(17) /\ ~res.ok
    /\ rec.d["age"] = 18

\* C3: constructing with, or assigning, a name string v fails when v is empty
\* or whitespace only, and otherwise stores the trimmed v lower-cased in full
\* with only its first character upper-cased.
C3_NameNormalized ==
    /\ Constructed =>
          /\ \A f \in NameFields : IsStr(res.args[f]) =>
                IF IsBlank(res.args[f].s)
                THEN ~res.ok /\ (res.exc = "ValidationError" => "name_empty" \in ErrorsOf(f))
                ELSE ErrorsOf(f) = {}
                        /\ (res.ok => rec.d[f] = ExpectedName(res.args[f].s))
          /\ (/\ res.kind = "BaseUser"
              /\ res.args["email"] = S(<<"u", "@", "d", ".", "c">>)
              /\ \A f \in NameFields : IsStr(res.args[f]) /\ ~IsBlank(res.args[f].s))
                => res.ok
    /\ (res.op = "assign" /\ res.field \in NameFields /\ IsStr(res.value)) =>
          IF IsBlank(res.value.s)
          THEN ~res.ok /\ "name_empty" \in ErrorsOf(res.field)
          ELSE res.ok /\ rec.d[res.field] = ExpectedName(res.value.s)

\* C3 witness: " a" was given as first name and stored as "A", or a mixed
\* case name was assigned and stored capitalized.
C3_Witness ==
    \/ /\ Constructed /\ res.ok
       /\ res.args["first_name"] = S(<<" ", "a">>)
       /\ rec.d["first_name"] = <<"A">>
    \/ /\ Assigned("first_name") /\ res.ok
       /\ res.value = S(<<"a", "A">>)
       /\ rec.d["first_name"] = <<"A", "a">>

\* C4 as stated: a password p of length >= 8 with a digit and a special
\* character is accepted at construction and stored equal to p.
C4_StoredVerbatim ==
    (/\ Constructed /\ res.kind = "User"
     /\ IsStr(res.args["password"]) /\ StrongPassword(res.args["password"].s)
     /\ res.args["age"] = I(18))
        => res.ok /\ rec.d["password"] = res.args["password"].s

\* C4 amended: a password p whose value without leading and trailing
\* whitespace has length >= 8, a digit and a special character is accepted at
\* construction and stored as that trimmed value, character for character.
C4_StoredTrimmed ==
    (/\ Constructed /\ res.kind = "User"
     /\ IsStr(res.args["password"]) /\ StrongPassword(Trimmed(res.args["password"].s))
     /\ res.args["age"] = I(18))
        => res.ok /\ rec.d["password"] = Trimmed(res.args["password"].s)

\* C4 witness: a password with a leading blank was accepted and stored
\* without the blank, its upper-case letter kept.
C4_Witness ==
    /\ Constructed /\ res.ok
    /\ res.args["password"] = S(<<" ", "A", "b", "c", "d", "e", "f", "1", "!">>)
    /\ rec.d["password"] = <<"A", "b", "c", "d", "e", "f", "1", "!">>

\* C5 as stated: construction fails for an integer age < 18, succeeds and
\* stores a for an integer a >= 18, and rejects a value that is not an integer.
C5_AgeThresholdStrict ==
    (/\ Constructed /\ res.kind = "User"
     /\ IsStr(res.args["password"]) /\ StrongPassword(Trimmed(res.args["password"].s)))
        => IF res.args["age"].t = "int"
           THEN IF res.args["age"].n < 18 THEN ~res.ok
                ELSE res.ok /\ rec.d["age"] = res.args["age"].n
           ELSE ~res.ok

\* C5 amended: construction fails for an integer age < 18 and succeeds,
\* storing a, for an integer a >= 18; a string of decimal digits and a float
\* without fractional part count as the integer they denote; every other
\* value is rejected.
C5_AgeThresholdLax ==
    (/\ Constructed /\ res.kind = "User"
     /\ IsStr(res.args["password"]) /\ StrongPassword(Trimmed(res.args["password"].s)))
        => LET n == IntegerOf(res.args["age"]) IN
           IF n = {} \/ \E a \in n : a < 18
           THEN ~res.ok /\ ErrorsOf("age") # {}
           ELSE res.ok /\ rec.d["age"] \in n

\* C5 witness: age "20", a string, was accepted and stored as the integer 20;
\* or the boundary 18 was accepted.
C5_Witness ==
    /\ Constructed /\ res.ok
    /\ \/ res.args["age"] = S(<<"2", "0">>) /\ rec.d["age"] = 20
       \/ res.args["age"] = I(18) /\ rec.d["age"] = 18

\* C6: has_permission(x) returns a boolean, true exactly when the role is
\* "superadmin" or x is one of read, write, delete, view_reports,
\* manage_users; it changes no field and not the permission set.
C6_HasPermission ==
    /\ ADMIN_PERMISSIONS = {"read", "write", "delete", "view_reports", "manage_users"}
    /\ res.op = "has_permission" =>
          /\ res.ret \in BOOLEAN
          /\ res.ret <=>
                \/ rec.d["role"] = "superadmin"
                \/ res.permission \in
                      {"read", "write", "delete", "view_reports", "manage_users"}
          /\ rec = res.before

\* C6 witness: a superadmin was granted an unknown permission, or an admin
\* was refused one.
C6_Witness ==
    /\ res.op = "has_permission"
    /\ \/ rec.d["role"] = "superadmin" /\ res.permission = "anything_custom" /\ res.ret
       \/ rec.d["role"] = "admin" /\ res.permission = "manage_roles" /\ ~res.ret

\* C7: the stored role of an AdminUser is always "admin" or "superadmin":
\* construction and assignment of role succeed for exactly these two values.
C7_RoleClosed ==
    /\ (rec # NoRec /\ rec.kind = "AdminUser") => rec.d["role"] \in {"admin", "superadmin"}
    /\ (Constructed /\ res.kind = "AdminUser") =>
          IF res.args["role"] \in {S("admin"), S("superadmin")}
          THEN ErrorsOf("role") = {} /\ (res.ok => rec.d["role"] = res.args["role"].s)
          ELSE ~res.ok /\ (res.exc = "ValidationError" => ErrorsOf("role") # {})
    /\ Assigned("role") =>
          IF res.value \in {S("admin"), S("superadmin")}
          THEN res.ok /\ rec.d["role"] = res.value.s
          ELSE ~res.ok /\ rec.d["role"] = res.before.d["role"]

\* C7 witness: role "administrator" was refused at construction, or role
\* "Admin" was refused at assignment.
C7_Witness ==
    \/ /\ Constructed /\ res.kind = "AdminUser" /\ ~res.ok
       /\ res.args["role"] = S("administrator")
       /\ res.errs = {<<"role", "literal_error">>}
    \/ /\ Assigned("role") /\ ~res.ok /\ res.value = S("Admin")

\* C8: normalization is idempotent: assigning a record's stored first_name or
\* last_name to itself succeeds and leaves the field unchanged.
C8_Idempotent ==
    (/\ res.op = "assign"
     /\ res.field \in NameFields
     /\ res.value = S(res.before.d[res.field]))
        => res.ok /\ rec = res.before

C10_OrderOnGiven ==
    (PasswordGiven /\ res.exc # "TypeError" /\ IsStr(GivenPassword)) =>
        LET p == GivenPassword.s IN
        IF Len(p) < 8 THEN TooShortNamed /\ ~NoDigitNamed /\ ~NoSpecialNamed
        ELSE IF ~HasDigit(p) THEN NoDigitNamed /\ ~TooShortNamed /\ ~NoSpecialNamed
        ELSE IF ~HasSpecial(p) THEN NoSpecialNamed /\ ~TooShortNamed /\ ~NoDigitNamed
        ELSE TRUE

\* C10 amended: with the rules applied to p without its leading and trailing
\* whitespace, a password fails as too short if that length is < 8, else as
\* missing a digit, else as missing a special character; the error names the
\* first rule broken in that order and no other.
C10_OrderOnTrimmed ==
    (PasswordGiven /\ res.exc # "TypeError" /\ IsStr(GivenPassword)) =>
        LET p == Trimmed(GivenPassword.s) IN
        IF Len(p) < 8 THEN TooShortNamed /\ ~NoDigitNamed /\ ~NoSpecialNamed
        ELSE IF ~HasDigit(p) THEN NoDigitNamed /\ ~TooShortNamed /\ ~NoSpecialNamed
        ELSE IF ~HasSpecial(p) THEN NoSpecialNamed /\ ~TooShortNamed /\ ~NoDigitNamed
        ELSE ErrorsOf("password") = {}

\* C10 witness: a password of length 8 with neither digit nor special
\* character was refused for the missing digit alone.
C10_Witness ==
    /\ PasswordGiven /\ ~res.ok
    /\ GivenPassword = S(<<"A", "b", "c", "d", "e", "f", "x", "x">>)
    /\ ErrorsOf("password") = {"password_no_digit"}

====
